---- MODULE Spec2Model ----
(***************************************************************************)
(* Model of the Luke Finance Dashboard: the browser session (plan          *)
(* validation, stage resolution, balance state, monthly rollover, the      *)
(* 60-second trigger, the display-mode toggle) and the state-storage       *)
(* endpoint of server.js.                                                  *)
(*                                                                         *)
(* JavaScript values are records [t, v]: t is the typeof-like tag and v an *)
(* integer payload.  A string is coded by an integer:                      *)
(*    v >= 1     the seven characters "YYYY-MM", YYYY = v \div 100 (four   *)
(*               digits), MM = v % 100 (two digits, 00..99);               *)
(*    v = 0      the empty string;                                         *)
(*    -8..-1     a non-empty, non-numeric text (stage names);              *)
(*    v = -9     a text of white space only;                               *)
(*    v <= -10   the decimal text of the number -v - 10.                   *)
(* For two "YYYY-MM" strings the lexical order of JavaScript's <= is the   *)
(* numeric order of the codes, because the format is fixed width.          *)
(* Infinity, which JSON.parse yields for a number literal beyond the      *)
(* range of a double such as 1e999, is a number record with the extra     *)
(* field inf.                                                              *)
(* A Date is [year, month] with month 0..11 (only day 1, 00:00 is used by  *)
(* the month arithmetic of the code).                                      *)
(***************************************************************************)
EXTENDS Integers, Sequences, FiniteSets, TLC

VARIABLES
  clock,        \* the wall clock, new Date(): [year, month]
  plan,         \* the content of plan.json (fixed for a behaviour)
  store,        \* state.json on the server
  pc,           \* where the session's loadPlan is
  goalState,    \* the module-level goalState object
  stateWarning, \* the module-level stateWarning string
  displayMode,  \* "monthly" | "yearly"
  view,         \* what the page shows
  loadReq,      \* the GET /api/state of loadState, in flight
  inflight,     \* the PUT /api/state requests of saveState, in flight
  event,        \* history: what the last step did
  ledger,       \* history: the balances adopted at load/init and the months applied since
  probe,        \* inputs and result of a pure function applied on its own
  other,        \* the session of a second tab, while the first one runs
  firstRecord   \* history: the first record state.json held

vars == <<clock, plan, store, pc, goalState, stateWarning, displayMode, view,
          loadReq, inflight, event, ledger, probe, other, firstRecord>>

-----------------------------------------------------------------------------
(* Bounds of the model *)

\* how many months the wall clock may advance in a behaviour
MaxMonths == 2
\* how many saves may be in flight at once
MaxInflight == 1
\* how many stages a probed stage list may hold
MaxStages == 3

-----------------------------------------------------------------------------
(* JavaScript values *)

Num(n) == [t |-> "number", v |-> n]
Str(c) == [t |-> "string", v |-> c]
Undef == [t |-> "undefined", v |-> 0]
Null == [t |-> "null", v |-> 0]
Bool(b) == [t |-> "boolean", v |-> IF b THEN 1 ELSE 0]

\* the number Infinity
Infinity == [t |-> "number", v |-> 1, inf |-> TRUE]

\* Number.isFinite on a number
isFinite(x) == "inf" \notin DOMAIN x

\* the string "YYYY-MM"
YmStr(y, m) == Str(y * 100 + m)

\* JavaScript truthiness of a value (!x, x ? a : b, x && y)
Truthy(x) ==
  CASE x.t = "number" -> x.v # 0
    [] x.t = "string" -> x.v # 0
    [] x.t = "boolean" -> x.v = 1
    [] OTHER -> FALSE

\* a <= b on two strings of the form "YYYY-MM"
StrLe(a, b) == a.v <= b.v

\* a.localeCompare(b) on two strings of the form "YYYY-MM"
localeCompare(a, b) == IF a.v < b.v THEN -1 ELSE IF a.v > b.v THEN 1 ELSE 0

\* a safeNumber that reads what is not a number as 0
safeNumberOrZero(x) == IF x.t = "number" THEN x ELSE Num(0)

safeNumber(x) == IF x.t = "number" THEN x ELSE Null

\* String.prototype.trim: white space only becomes the empty string
trim(x) == IF x.v = -9 THEN Str(0) ELSE x

-----------------------------------------------------------------------------
(* Date helpers *)

\* new Date(y, m, 1): a month outside 0..11 carries into the year
JsDate(y, m) == [year |-> y + (m \div 12), month |-> m % 12]

getCurrentYearMonth(d) == YmStr(d.year, d.month + 1)

parseYearMonth(ym) == JsDate(ym.v \div 100, (ym.v % 100) - 1)

addMonths(date, months) == JsDate(date.year, date.month + months)

isValidYearMonth(value) ==
  /\ value.t = "string"
  /\ value.v >= 1
  /\ (value.v % 100) >= 1
  /\ (value.v % 100) <= 12

-----------------------------------------------------------------------------
(* Plans *)

Stage(name, from, to, sl, sb) ==
  [name |-> name, from |-> from, to |-> to,
   saving_longterm |-> sl, saving_buffer |-> sb]

\* what stage?.field reads when stage is null
NoStage == Stage(Undef, Undef, Undef, Undef, Undef)

Goal(tl, tb, cl, cb, ty) ==
  [t |-> "object", target_longterm |-> tl, target_buffer |-> tb,
   current_longterm |-> cl, current_buffer |-> cb, target_year |-> ty]

\* plan.goal absent
NoGoal ==
  [t |-> "undefined", target_longterm |-> Undef, target_buffer |-> Undef,
   current_longterm |-> Undef, current_buffer |-> Undef, target_year |-> Undef]

Plan(items, goal) ==
  [t |-> "object", stages |-> [t |-> "array", items |-> items], goal |-> goal]

\* Array.isArray(plan.stages) ? plan.stages : []
StagesOf(p) == IF p.stages.t = "array" THEN p.stages.items ELSE <<>>

GoalKeys ==
  <<"target_longterm", "target_buffer", "current_longterm", "current_buffer",
    "target_year">>

\* the issues of one stage up to the first one only
StageIssuesFirstOnly(stage, i) ==
  IF stage.name.t # "string" \/ trim(stage.name) = Str(0)
    THEN <<[kind |-> "name", at |-> i]>>
  ELSE IF ~isValidYearMonth(stage.from)
    THEN <<[kind |-> "from", at |-> i]>>
  ELSE IF Truthy(stage.to) /\ ~isValidYearMonth(stage.to)
    THEN <<[kind |-> "to", at |-> i]>>
  ELSE <<>>

\* the issues of one stage, in the order the code pushes them (a null stage
\* reads as NoStage)
StageIssues(stage, i) ==
  (IF stage.name.t # "string" \/ trim(stage.name) = Str(0)
     THEN <<[kind |-> "name", at |-> i]>> ELSE <<>>)
  \o (IF ~isValidYearMonth(stage.from)
        THEN <<[kind |-> "from", at |-> i]>> ELSE <<>>)
  \o (IF Truthy(stage.to) /\ ~isValidYearMonth(stage.to)
        THEN <<[kind |-> "to", at |-> i]>> ELSE <<>>)

RECURSIVE AllStageIssues(_, _)
AllStageIssues(items, i) ==
  IF i > Len(items) THEN <<>>
  ELSE StageIssues(items[i], i) \o AllStageIssues(items, i + 1)

RECURSIVE GoalIssues(_, _)
GoalIssues(g, k) ==
  IF k > Len(GoalKeys) THEN <<>>
  ELSE (IF g[GoalKeys[k]].t = "undefined"
          THEN <<[kind |-> "goal", at |-> k]>> ELSE <<>>)
       \o GoalIssues(g, k + 1)

\* if (plan.goal): a goal that is neither absent nor null (a goal that is
\* not an object is taken to be truthy and owns none of the keys)
GoalTruthy(g) == g.t \notin {"undefined", "null"}

\* validatePlan without the return after its first issue; the items of
\* something that is not an array are not visited
validatePlanFailsOpen(p) ==
  (IF p.t # "object" \/ p.stages.t # "array" \/ Len(p.stages.items) = 0
     THEN <<[kind |-> "stages", at |-> 0]>> ELSE <<>>)
  \o (IF p.t = "object" /\ p.stages.t = "array"
        THEN AllStageIssues(p.stages.items, 1) ELSE <<>>)
  \o (IF p.t = "object" /\ GoalTruthy(p.goal) THEN GoalIssues(p.goal, 1) ELSE <<>>)

validatePlan(p) ==
  IF p.t # "object" \/ p.stages.t # "array" \/ Len(p.stages.items) = 0
    THEN <<[kind |-> "stages", at |-> 0]>>
    ELSE AllStageIssues(p.stages.items, 1)
         \o (IF GoalTruthy(p.goal) THEN GoalIssues(p.goal, 1) ELSE <<>>)

-----------------------------------------------------------------------------
(* Stage selection *)

\* tier 1: from <= ym <= to, or open ended
Contains(s, ym) ==
  /\ Truthy(s.from)
  /\ StrLe(s.from, ym)
  /\ (IF Truthy(s.to) THEN StrLe(ym, s.to) ELSE TRUE)

\* tier 2: started at or before ym
StartedBy(s, ym) == Truthy(s.from) /\ StrLe(s.from, ym)

\* both filters keep only the stages that contain ym
KeepsContainingOnly(tier, s, ym) == Contains(s, ym)

\* the predicate of stages.filter: tier 1 or tier 2
Keeps(tier, s, ym) == IF tier = 1 THEN Contains(s, ym) ELSE StartedBy(s, ym)

\* Array.prototype.filter
RECURSIVE FilterStages(_, _, _)
FilterStages(stages, tier, ym) ==
  IF stages = <<>> THEN <<>>
  ELSE (IF Keeps(tier, Head(stages), ym) THEN <<Head(stages)>> ELSE <<>>)
       \o FilterStages(Tail(stages), tier, ym)

\* both sorts ascending
CompareFromAscending(a, b, desc) == localeCompare(a.from, b.from)

\* both sorts descending
CompareFromDescending(a, b, desc) == localeCompare(b.from, a.from)

\* the comparators: (a, b) => b.from.localeCompare(a.from) when desc,
\* (a, b) => a.from.localeCompare(b.from) otherwise
CompareFrom(a, b, desc) ==
  IF desc THEN localeCompare(b.from, a.from) ELSE localeCompare(a.from, b.from)

\* insert x into the sorted sequence s, after every element that does not
\* compare greater than x (a stable sort keeps equal elements in input order)
RECURSIVE InsertSorted(_, _, _)
InsertSorted(x, s, desc) ==
  IF s = <<>> THEN <<x>>
  ELSE IF CompareFrom(Head(s), x, desc) <= 0
    THEN <<Head(s)>> \o InsertSorted(x, Tail(s), desc)
  ELSE <<x>> \o s

\* Array.prototype.sort with one of the two comparators (stable)
RECURSIVE StableSort(_, _)
StableSort(s, desc) ==
  IF s = <<>> THEN <<>>
  ELSE InsertSorted(s[Len(s)], StableSort(SubSeq(s, 1, Len(s) - 1), desc), desc)

findStageForYearMonth(stages, ym) ==
  IF Len(stages) = 0 THEN NoStage
  ELSE
    LET candidates == StableSort(FilterStages(stages, 1, ym), TRUE)
        prior == StableSort(FilterStages(stages, 2, ym), TRUE)
        earliest == StableSort(stages, FALSE)
    IN  IF Len(candidates) > 0 THEN candidates[1]
        ELSE IF Len(prior) > 0 THEN prior[1]
        ELSE earliest[1]

-----------------------------------------------------------------------------
(* Goal state *)

\* const goalState = { currentLongterm: 0, currentBuffer: 0, lastRolloverYm: null }
GoalState0 ==
  [currentLongterm |-> Num(0), currentBuffer |-> Num(0), lastRolloverYm |-> Null]

StateNotSaved == "State not saved (server offline)"

\* initGoalState with the watermark set one month early
initGoalStateMonthEarly(p, now) ==
  LET seedLong == safeNumber(p.goal.current_longterm)
      seedBuf == safeNumber(p.goal.current_buffer)
  IN  [currentLongterm |-> IF seedLong.t = "number" THEN seedLong ELSE Num(0),
       currentBuffer |-> IF seedBuf.t = "number" THEN seedBuf ELSE Num(0),
       lastRolloverYm |-> getCurrentYearMonth(addMonths(now, -1))]

initGoalState(p, now) ==
  LET seedLong == safeNumber(p.goal.current_longterm)
      seedBuf == safeNumber(p.goal.current_buffer)
  IN  [currentLongterm |-> IF seedLong.t = "number" THEN seedLong ELSE Num(0),
       currentBuffer |-> IF seedBuf.t = "number" THEN seedBuf ELSE Num(0),
       lastRolloverYm |-> getCurrentYearMonth(now)]

\* RolloverStep without "goalState.lastRolloverYm = ym"
RolloverStepKeepsWatermark(stages, cursor, r) ==
  LET ym == getCurrentYearMonth(cursor)
      stage == findStageForYearMonth(stages, ym)
      addLong == safeNumber(stage.saving_longterm)
      addBuf == safeNumber(stage.saving_buffer)
  IN  [gs |->
         [currentLongterm |->
            IF addLong.t = "number"
              THEN Num(r.gs.currentLongterm.v + addLong.v) ELSE r.gs.currentLongterm,
          currentBuffer |->
            IF addBuf.t = "number"
              THEN Num(r.gs.currentBuffer.v + addBuf.v) ELSE r.gs.currentBuffer,
          lastRolloverYm |-> r.gs.lastRolloverYm],
       changed |-> r.changed \/ addLong.t = "number" \/ addBuf.t = "number",
       trail |-> Append(r.trail, ym)]

\* one iteration of the while loop of applyMonthlyRolloverIfNeeded
RolloverStep(stages, cursor, r) ==
  LET ym == getCurrentYearMonth(cursor)
      stage == findStageForYearMonth(stages, ym)
      addLong == safeNumber(stage.saving_longterm)
      addBuf == safeNumber(stage.saving_buffer)
  IN  [gs |->
         [currentLongterm |->
            IF addLong.t = "number"
              THEN Num(r.gs.currentLongterm.v + addLong.v) ELSE r.gs.currentLongterm,
          currentBuffer |->
            IF addBuf.t = "number"
              THEN Num(r.gs.currentBuffer.v + addBuf.v) ELSE r.gs.currentBuffer,
          lastRolloverYm |-> ym],
       changed |-> r.changed \/ addLong.t = "number" \/ addBuf.t = "number",
       trail |-> Append(r.trail, ym)]

RECURSIVE RolloverLoop(_, _, _, _)
RolloverLoop(stages, currentYm, cursor, r) ==
  IF StrLe(getCurrentYearMonth(cursor), currentYm)
    THEN RolloverLoop(stages, currentYm, addMonths(cursor, 1),
                      RolloverStep(stages, cursor, r))
    ELSE r

\* applyMonthlyRolloverIfNeeded with the cursor started on the watermark's
\* own month instead of the month after it
applyRolloverFromWatermark(stages, gs, now) ==
  LET currentYm == getCurrentYearMonth(now) IN
  IF ~Truthy(gs.lastRolloverYm)
    THEN [gs |-> [gs EXCEPT !.lastRolloverYm = currentYm],
          changed |-> FALSE, trail |-> <<>>]
  ELSE IF StrLe(currentYm, gs.lastRolloverYm)
    THEN [gs |-> gs, changed |-> FALSE, trail |-> <<>>]
  ELSE RolloverLoop(stages, currentYm, parseYearMonth(gs.lastRolloverYm),
                    [gs |-> gs, changed |-> FALSE, trail |-> <<>>])

\* the result: the goal state after the pass, the returned flag, and the
\* months the loop stepped through (in order)
applyMonthlyRolloverIfNeeded(stages, gs, now) ==
  LET currentYm == getCurrentYearMonth(now) IN
  IF ~Truthy(gs.lastRolloverYm)
    THEN [gs |-> [gs EXCEPT !.lastRolloverYm = currentYm],
          changed |-> FALSE, trail |-> <<>>]
  ELSE IF StrLe(currentYm, gs.lastRolloverYm)
    THEN [gs |-> gs, changed |-> FALSE, trail |-> <<>>]
  ELSE RolloverLoop(stages, currentYm,
                    addMonths(parseYearMonth(gs.lastRolloverYm), 1),
                    [gs |-> gs, changed |-> FALSE, trail |-> <<>>])

-----------------------------------------------------------------------------
(* Goal projection *)
(* The balances of a projection are doubles in the code.  Here they are      *)
(* counted in hundredths and the monthly growth is rounded down to a         *)
(* hundredth: the factor 1 + monthlyRate is 1.006434 (1.08^(1/12) to six     *)
(* places).                                                                  *)

\* hundredths per unit
Scale == 100

\* monthlyRate = Math.pow(1 + annualRate, 1 / 12) - 1, in millionths
MonthlyRatePpm == 6434

\* the ceiling of the for loop
MaxIterations == 600

\* a loop that runs one iteration beyond the ceiling
withinCeilingInclusive(i) == i <= MaxIterations

\* i < 600, the condition of the for loops
withinCeiling(i) == i < MaxIterations

\* b * (1 + monthlyRate) for a balance b in hundredths; the product is taken
\* in two parts, thousands and rest, so that it stays within 32-bit integers
Grow(b) ==
  b + ((b \div 1000) * MonthlyRatePpm + ((b % 1000) * MonthlyRatePpm) \div 1000) \div 1000

\* the test with the long-term threshold alone
longtermReached(lt, buf, targetLT, targetBuf) == lt >= targetLT.v * Scale

\* longTermBalance >= targetLT && bufferBalance >= targetBuf
bothReached(lt, buf, targetLT, targetBuf) ==
  lt >= targetLT.v * Scale /\ buf >= targetBuf.v * Scale

\* one month of the loop with the growth applied before the deposit
projectMonthGrowthFirst(stages, cursor, lt, buf) ==
  LET ym == getCurrentYearMonth(cursor)
      stage == findStageForYearMonth(stages, ym)
      addLong == safeNumber(stage.saving_longterm)
      addBuf == safeNumber(stage.saving_buffer)
  IN  [lt |-> IF addLong.t = "number" THEN Grow(lt) + addLong.v * Scale ELSE Grow(lt),
       buf |-> IF addBuf.t = "number" THEN buf + addBuf.v * Scale ELSE buf]

\* one month of the loop of projectGoalDate, lines 474-483: the deposits of
\* the stage resolved for the cursor's month, then the growth
projectMonth(stages, cursor, lt, buf) ==
  LET ym == getCurrentYearMonth(cursor)
      stage == findStageForYearMonth(stages, ym)
      addLong == safeNumber(stage.saving_longterm)
      addBuf == safeNumber(stage.saving_buffer)
  IN  [lt |-> Grow(IF addLong.t = "number" THEN lt + addLong.v * Scale ELSE lt),
       buf |-> IF addBuf.t = "number" THEN buf + addBuf.v * Scale ELSE buf]

\* bufferBalance >= targetBuf, the one threshold of projectBufferDate
bufferReached(buf, targetBuf) == buf >= targetBuf.v * Scale

\* one month of the loop of projectBufferDate, lines 514-518: the buffer
\* deposit of the stage resolved for the cursor's month, nothing else
bufferMonth(stages, cursor, buf) ==
  LET ym == getCurrentYearMonth(cursor)
      stage == findStageForYearMonth(stages, ym)
      addBuf == safeNumber(stage.saving_buffer)
  IN  IF addBuf.t = "number" THEN buf + addBuf.v * Scale ELSE buf

\* { reached: false } and { reached: true, date }
NotReached == [reached |-> FALSE]
Reached(date) == [reached |-> TRUE, date |-> date]

\* what the early returns of lines 456-458 and 502-503 hand back when the
\* configuration is insufficient
ConfigOutcome == [reached |-> FALSE]

-----------------------------------------------------------------------------
(* Computation for the month view *)

\* a stage with the six figures the month view reads
ViewStage(income, net_income, fixed_costs, household, sl, sb) ==
  [t |-> "object", name |-> Str(-1), income |-> income, net_income |-> net_income,
   fixed_costs |-> fixed_costs, household |-> household,
   saving_longterm |-> sl, saving_buffer |-> sb]

\* no stage resolved: stage?.x is undefined for every x
ViewNoStage ==
  [t |-> "null", name |-> Undef, income |-> Undef, net_income |-> Undef,
   fixed_costs |-> Undef, household |-> Undef,
   saving_longterm |-> Undef, saving_buffer |-> Undef]

\* the name shown when the stage has none
UnknownStage == Str(-8)

computeViewModel(stage) ==
  LET incomePreTax == safeNumber(stage.income)
      netIncome == safeNumber(stage.net_income)
      fixedCosts == safeNumber(stage.fixed_costs)
      household == safeNumber(stage.household)
      savingsLong == safeNumber(stage.saving_longterm)
      savingsBuffer == safeNumber(stage.saving_buffer)
      savingsTotal ==
        IF savingsLong.t = "number" /\ savingsBuffer.t = "number"
          THEN Num(savingsLong.v + savingsBuffer.v)
          ELSE Null
      totalOut ==
        IF fixedCosts.t = "number" /\ household.t = "number"
          THEN Num(fixedCosts.v + household.v)
          ELSE Null
      leftover ==
        IF netIncome.t = "number" /\ totalOut.t = "number" /\ savingsTotal.t = "number"
          THEN Num(netIncome.v - totalOut.v - savingsTotal.v)
          ELSE Null
      tax ==
        IF incomePreTax.t = "number" /\ netIncome.t = "number"
          THEN Num(incomePreTax.v - netIncome.v)
          ELSE Null
  IN  [stageName |-> IF Truthy(stage.name) THEN stage.name ELSE UnknownStage,
       incomePreTax |-> incomePreTax, netIncome |-> netIncome, tax |-> tax,
       fixedCosts |-> fixedCosts, household |-> household, totalOut |-> totalOut,
       savingsLong |-> savingsLong, savingsBuffer |-> savingsBuffer,
       savingsTotal |-> savingsTotal, leftover |-> leftover]

-----------------------------------------------------------------------------
(* State storage: server.js *)

\* state.json does not exist
NoFile ==
  [exists |-> FALSE, current_longterm |-> Undef, current_buffer |-> Undef,
   last_rollover_ym |-> Undef, updated_at |-> Undef]

\* Number(x) || 0
NumberOrZero(x) ==
  CASE x.t = "number" -> x
    [] x.t = "boolean" -> Num(x.v)
    [] x.t = "string" /\ x.v <= -10 -> Num(-x.v - 10)
    [] OTHER -> Num(0)

\* new Date().toISOString(), to the month
toISOString(now) == YmStr(now.year, now.month + 1)

\* JSON.stringify followed by JSON.parse on a value: a number that is not
\* finite is written as null
jsonValue(x) == IF x.t = "number" /\ ~isFinite(x) THEN Null ELSE x

\* the record as state.json and the response body carry it
jsonRecord(out) ==
  [out EXCEPT !.current_longterm = jsonValue(@), !.current_buffer = jsonValue(@)]

\* app.put("/api/state"), lines 40-47: the object out
PutOut(body, now) ==
  [exists |-> TRUE,
   current_longterm |-> NumberOrZero(body.current_longterm),
   current_buffer |-> NumberOrZero(body.current_buffer),
   last_rollover_ym |->
     IF body.last_rollover_ym.t = "string" THEN body.last_rollover_ym ELSE Null,
   updated_at |-> toISOString(now)]

\* app.put("/api/state"): the record written and echoed
PutHandler(body, now) == jsonRecord(PutOut(body, now))

\* app.get("/api/state"): {} when there is no record
GetHandler(s) == IF ~s.exists THEN NoFile ELSE s

\* loadState: null (read as NoFile) on a failure or an empty object
loadState(ok, data) == IF ~ok THEN NoFile ELSE IF ~data.exists THEN NoFile ELSE data

\* the payload saveState builds from goalState
SavePayload(gs) ==
  [current_longterm |-> gs.currentLongterm, current_buffer |-> gs.currentBuffer,
   last_rollover_ym |-> gs.lastRolloverYm]

\* saveState that never sets the warning
saveStateWarningNever(ok) == ""

\* stateWarning after a save settled
saveStateWarning(ok) == IF ok THEN "" ELSE StateNotSaved

Request(gs, origin) == [payload |-> SavePayload(gs), origin |-> origin, phase |-> "sent"]

RemoveAt(s, i) == SubSeq(s, 1, i - 1) \o SubSeq(s, i + 1, Len(s))

-----------------------------------------------------------------------------
(* Rendering *)

ViewOf(kind) == [kind |-> kind, yearMonth |-> Undef, warning |-> "", issues |-> <<>>]

\* the page after renderValidationErrors: the panel listing every issue
renderValidationErrors(issues) ==
  [kind |-> "errors", yearMonth |-> Undef, warning |-> "", issues |-> issues]

\* the page after renderCurrentDashboard: the month in the header and the
\* warning pill (the figures are recomputed from goalState and the plan)
renderCurrentDashboard(warning, now) ==
  [kind |-> "dashboard", yearMonth |-> getCurrentYearMonth(now), warning |-> warning,
   issues |-> <<>>]

-----------------------------------------------------------------------------
(* The plans and write bodies the model draws its inputs from *)

StartClock == JsDate(2025, 10)

MonthsElapsed == (clock.year * 12 + clock.month) - (StartClock.year * 12 + StartClock.month)

GoalFull == Goal(Num(9000), Num(500), Num(1000), Num(200), Num(2030))
\* current_longterm present but not a number
GoalTextSeed == Goal(Num(9000), Num(500), Str(-15), Num(200), Num(2030))
\* current_buffer missing
GoalMissingKey == Goal(Num(9000), Num(500), Num(1000), Undef, Num(2030))

\* two stages without gap or overlap, the second open ended
StagesGapless ==
  <<Stage(Str(-1), YmStr(2025, 1), YmStr(2025, 12), Num(100), Num(10)),
    Stage(Str(-2), YmStr(2026, 1), Undef, Num(300), Undef)>>
\* an open-ended stage overlapped by a later one
StagesOverlap ==
  <<Stage(Str(-1), YmStr(2025, 1), Undef, Num(100), Num(10)),
    Stage(Str(-2), YmStr(2025, 12), YmStr(2026, 1), Num(0), Num(40))>>
\* a stage with no numeric savings, then a gap, then a stage with savings
StagesNoSavings ==
  <<Stage(Str(-1), YmStr(2025, 1), YmStr(2025, 11), Undef, Str(-15)),
    Stage(Str(-2), YmStr(2026, 1), Undef, Num(100), Num(10))>>
\* a stage whose from is not a month
StagesBadFrom ==
  <<Stage(Str(-1), YmStr(2025, 13), Undef, Num(100), Num(10))>>
\* a stage that ends before it starts, then a stage that draws on the buffer
StagesInverted ==
  <<Stage(Str(-1), YmStr(2025, 6), YmStr(2025, 3), Num(100), Num(10)),
    Stage(Str(-2), YmStr(2025, 12), Undef, Num(50), Num(-5))>>

Plans ==
  { Plan(StagesGapless, GoalFull),
    Plan(StagesOverlap, GoalTextSeed),
    Plan(StagesNoSavings, NoGoal),
    Plan(StagesBadFrom, GoalFull),
    Plan(StagesInverted, GoalFull),
    Plan(StagesGapless, GoalMissingKey),
    Plan(<<>>, GoalFull) }

\* bodies another client of the endpoint may PUT
Body(cl, cb, ym) ==
  [current_longterm |-> cl, current_buffer |-> cb, last_rollover_ym |-> ym]

ExternalBodies ==
  { Body(Num(5000), Num(300), YmStr(2025, 9)),
    Body(Num(5000), Num(300), YmStr(2026, 4)),
    Body(Str(-1), Str(-17), Num(7)) }

NoRoll ==
  [ran |-> FALSE, before |-> GoalState0, now |-> Undef, trail |-> <<>>,
   changed |-> FALSE]

RollOf(gs0, r) ==
  [ran |-> TRUE, before |-> gs0, now |-> getCurrentYearMonth(clock),
   trail |-> r.trail, changed |-> r.changed]

\* the record of a step: what ran, whether a rollover pass ran and on what,
\* how many saves the step issued, whether it rendered, which save settled
Event(kind, roll, saved, render, settled) ==
  [kind |-> kind, roll |-> roll, saved |-> saved, render |-> render,
   settled |-> settled]

NoProbe == [fn |-> "none"]

-----------------------------------------------------------------------------
(* The session *)

\* no second tab is open
NoTab == [pc |-> "closed"]

SessionInit ==
  /\ clock = StartClock
  /\ store = NoFile
  /\ pc = "boot"
  /\ goalState = GoalState0
  /\ stateWarning = ""
  /\ displayMode = "monthly"
  /\ view = ViewOf("loading")
  /\ loadReq = [phase |-> "none", data |-> NoFile]
  /\ inflight = <<>>
  /\ event = Event("start", NoRoll, 0, FALSE, "none")
  /\ ledger = [base |-> GoalState0, applied |-> <<>>]
  /\ other = NoTab
  /\ firstRecord = NoFile

Init ==
  /\ SessionInit
  /\ plan \in Plans
  /\ probe = NoProbe

\* loadPlan, lines 888-897: the rollover pass, the awaited save if it
\* changed something, else the first render and the two intervals
RolloverThenRender(kind, gs0, warning, reqs, settled, led) ==
  LET r == applyMonthlyRolloverIfNeeded(StagesOf(plan), gs0, clock) IN
  /\ goalState' = r.gs
  /\ stateWarning' = warning
  /\ IF r.changed
       THEN /\ inflight' = Append(reqs, Request(r.gs, "roll"))
            /\ pc' = "rollSaving"
            /\ view' = view
       ELSE /\ inflight' = reqs
            /\ pc' = "running"
            /\ view' = renderCurrentDashboard(warning, clock)
  /\ event' = Event(kind, RollOf(gs0, r), IF r.changed THEN 1 ELSE 0, ~r.changed, settled)
  /\ ledger' = [led EXCEPT !.applied = @ \o r.trail]

\* tryFetchPlan throws: the catch of loadPlan shows the error
FetchPlanFail ==
  /\ pc = "boot"
  /\ pc' = "fatal"
  /\ view' = ViewOf("fatal")
  /\ event' = Event("fetchFail", NoRoll, 0, FALSE, "none")
  /\ UNCHANGED <<clock, plan, store, goalState, stateWarning, displayMode, loadReq,
                 inflight, ledger, probe,
                 other, firstRecord>>

\* loadPlan going on whatever validatePlan returned
planAcceptedAlways(issues) == TRUE

\* loadPlan, lines 864-868: it goes on only without issues
planAccepted(issues) == Len(issues) = 0

\* loadPlan, lines 860-872: the plan arrives, is validated, and either the
\* validation errors are shown or loadState is started
FetchPlanOk ==
  /\ pc = "boot"
  /\ IF ~planAccepted(validatePlan(plan))
       THEN /\ pc' = "invalid"
            /\ view' = renderValidationErrors(validatePlan(plan))
            /\ loadReq' = loadReq
       ELSE /\ pc' = "loadingState"
            /\ view' = view
            /\ loadReq' = [phase |-> "sent", data |-> NoFile]
  /\ event' = Event("fetchOk", NoRoll, 0, FALSE, "none")
  /\ UNCHANGED <<clock, plan, store, goalState, stateWarning, displayMode, inflight,
                 ledger, probe,
                 other, firstRecord>>

\* the server answers the GET
ServerGet ==
  /\ loadReq.phase = "sent"
  /\ loadReq' = [phase |-> "done", data |-> GetHandler(store)]
  /\ event' = Event("serverGet", NoRoll, 0, FALSE, "none")
  /\ UNCHANGED <<clock, plan, store, pc, goalState, stateWarning, displayMode, view,
                 inflight, ledger, probe,
                 other, firstRecord>>

\* loadPlan, lines 872-897: loadState settles (ok: the response arrived;
\* not ok: fetch threw or the status was not OK); the stored balances are
\* adopted, or the goal seeds are and saved
LoadStateSettled(ok) ==
  /\ pc = "loadingState"
  /\ loadReq.phase \in (IF ok THEN {"done"} ELSE {"sent", "done"})
  /\ loadReq' = [phase |-> "none", data |-> NoFile]
  /\ LET storedState == loadState(ok, loadReq.data)
         storedLong == safeNumber(storedState.current_longterm)
         storedBuf == safeNumber(storedState.current_buffer)
         storedYm == storedState.last_rollover_ym
     IN  IF storedLong.t = "number" /\ storedBuf.t = "number"
           THEN LET gs0 == [currentLongterm |-> storedLong,
                            currentBuffer |-> storedBuf,
                            lastRolloverYm |->
                              IF isValidYearMonth(storedYm) THEN storedYm
                              ELSE getCurrentYearMonth(clock)]
                IN  RolloverThenRender("load", gs0, stateWarning, inflight, "none",
                                       [base |-> gs0, applied |-> <<>>])
           ELSE LET gs0 == initGoalState(plan, clock) IN
                /\ goalState' = gs0
                /\ inflight' = Append(inflight, Request(gs0, "init"))
                /\ pc' = "initSaving"
                /\ event' = Event("init", NoRoll, 1, FALSE, "none")
                /\ ledger' = [base |-> gs0, applied |-> <<>>]
                /\ UNCHANGED <<stateWarning, view>>
  /\ UNCHANGED <<clock, plan, store, displayMode, probe,
                 other, firstRecord>>

\* the server handles a PUT of the session
ServerPutStep(i) ==
  /\ inflight[i].phase = "sent"
  /\ store' = PutHandler(inflight[i].payload, clock)
  /\ inflight' = IF inflight[i].origin = "orphan" THEN RemoveAt(inflight, i)
                 ELSE [inflight EXCEPT ![i].phase = "done"]
  /\ event' = Event("serverPut", NoRoll, 0, FALSE, "none")
  /\ UNCHANGED <<clock, plan, pc, goalState, stateWarning, displayMode, view, loadReq,
                 ledger, probe, other>>

ServerPut(i) == ServerPutStep(i) /\ UNCHANGED firstRecord

\* another client of the endpoint writes a record
ExternalPut(body) ==
  /\ store' = PutHandler(body, clock)
  /\ store' # store
  /\ event' = Event("externalPut", NoRoll, 0, FALSE, "none")
  /\ UNCHANGED <<clock, plan, pc, goalState, stateWarning, displayMode, view, loadReq,
                 inflight, ledger, probe,
                 other, firstRecord>>

\* a save settles for its caller: ok needs the server's response
Settles(i, origin, ok) ==
  /\ inflight[i].origin = origin
  /\ inflight[i].phase \in (IF ok THEN {"done"} ELSE {"sent", "done"})

\* loadPlan, lines 885-897: the save after initGoalState settles
InitSaveSettled(i, ok) ==
  /\ pc = "initSaving"
  /\ Settles(i, "init", ok)
  /\ RolloverThenRender("initSaved", goalState, saveStateWarning(ok),
                        RemoveAt(inflight, i), IF ok THEN "ok" ELSE "fail", ledger)
  /\ UNCHANGED <<clock, plan, store, displayMode, loadReq, probe,
                 other, firstRecord>>

\* loadPlan, lines 891-897: the save after the rollover settles
RollSaveSettled(i, ok) ==
  /\ pc = "rollSaving"
  /\ Settles(i, "roll", ok)
  /\ inflight' = RemoveAt(inflight, i)
  /\ stateWarning' = saveStateWarning(ok)
  /\ pc' = "running"
  /\ view' = renderCurrentDashboard(stateWarning', clock)
  /\ event' = Event("rollSaved", NoRoll, 0, TRUE, IF ok THEN "ok" ELSE "fail")
  /\ UNCHANGED <<clock, plan, store, goalState, displayMode, loadReq, ledger, probe,
                 other, firstRecord>>

\* the interval callback without its "if (!changed) return"
tickSavesAlways(changed) == TRUE

\* the interval callback that never saves
tickSavesNever(changed) == FALSE

\* whether the interval callback goes on to save after the pass
tickSaves(changed) == changed

\* the 60-second interval, lines 905-914
Tick60 ==
  /\ pc = "running"
  /\ LET r == applyMonthlyRolloverIfNeeded(StagesOf(plan), goalState, clock) IN
     /\ goalState' = r.gs
     /\ IF tickSaves(r.changed)
          THEN /\ Len(inflight) < MaxInflight
               /\ inflight' = Append(inflight, Request(r.gs, "tick"))
          ELSE inflight' = inflight
     /\ event' = Event("tick", RollOf(goalState, r),
                       IF tickSaves(r.changed) THEN 1 ELSE 0, FALSE, "none")
     /\ ledger' = [ledger EXCEPT !.applied = @ \o r.trail]
  /\ UNCHANGED <<clock, plan, store, pc, stateWarning, displayMode, view, loadReq, probe,
                 other, firstRecord>>

\* saveState().finally(...) of the interval, lines 911-913
TickSaveSettled(i, ok) ==
  /\ Settles(i, "tick", ok)
  /\ inflight' = RemoveAt(inflight, i)
  /\ stateWarning' = saveStateWarning(ok)
  /\ view' = renderCurrentDashboard(stateWarning', clock)
  /\ event' = Event("tickSaved", NoRoll, 0, TRUE, IF ok THEN "ok" ELSE "fail")
  /\ UNCHANGED <<clock, plan, store, pc, goalState, displayMode, loadReq, ledger, probe,
                 other, firstRecord>>

\* a click on the mode button that is not active, lines 712-725
ToggleMode ==
  /\ view.kind = "dashboard"
  /\ displayMode' = IF displayMode = "monthly" THEN "yearly" ELSE "monthly"
  /\ view' = renderCurrentDashboard(stateWarning, clock)
  /\ event' = Event("toggle", NoRoll, 0, TRUE, "none")
  /\ UNCHANGED <<clock, plan, store, pc, goalState, stateWarning, loadReq, inflight,
                 ledger, probe,
                 other, firstRecord>>

\* a month passes
ClockAdvance ==
  /\ MonthsElapsed < MaxMonths
  /\ clock' = addMonths(clock, 1)
  /\ event' = Event("clock", NoRoll, 0, FALSE, "none")
  /\ UNCHANGED <<plan, store, pc, goalState, stateWarning, displayMode, view, loadReq,
                 inflight, ledger, probe,
                 other, firstRecord>>

\* the requests that outlive the page: those the server has not handled yet
RECURSIVE Orphans(_)
Orphans(reqs) ==
  IF reqs = <<>> THEN <<>>
  ELSE (IF Head(reqs).phase = "sent"
          THEN <<[Head(reqs) EXCEPT !.origin = "orphan"]>> ELSE <<>>)
       \o Orphans(Tail(reqs))

\* the page is loaded again once loadPlan has run to its end: the module
\* state starts over
Reload ==
  /\ pc \in {"running", "fatal", "invalid"}
  /\ pc' = "boot"
  /\ goalState' = GoalState0
  /\ stateWarning' = ""
  /\ displayMode' = "monthly"
  /\ view' = ViewOf("loading")
  /\ loadReq' = [phase |-> "none", data |-> NoFile]
  /\ inflight' = Orphans(inflight)
  /\ event' = Event("reload", NoRoll, 0, FALSE, "none")
  /\ ledger' = [base |-> GoalState0, applied |-> <<>>]
  /\ UNCHANGED <<clock, plan, store, probe,
                 other, firstRecord>>

Next ==
  \/ FetchPlanFail
  \/ FetchPlanOk
  \/ ServerGet
  \/ \E ok \in BOOLEAN : LoadStateSettled(ok)
  \/ \E i \in 1..Len(inflight) : ServerPut(i)
  \/ \E body \in ExternalBodies : ExternalPut(body)
  \/ \E i \in 1..Len(inflight), ok \in BOOLEAN : InitSaveSettled(i, ok)
  \/ \E i \in 1..Len(inflight), ok \in BOOLEAN : RollSaveSettled(i, ok)
  \/ Tick60
  \/ \E i \in 1..Len(inflight), ok \in BOOLEAN : TickSaveSettled(i, ok)
  \/ ToggleMode
  \/ ClockAdvance
  \/ Reload

Spec == Init /\ [][Next]_vars

-----------------------------------------------------------------------------
(* Stage resolution applied on its own *)

ProbeMonths == {YmStr(2025, 11), YmStr(2025, 12), YmStr(2026, 1)}

StageOptions == [from : ProbeMonths, to : ProbeMonths \cup {Undef}]

\* a stage list drawn from the options: stage i is named by i and deposits
\* 100 * i and i
StageList(n, f) == [i \in 1..n |-> Stage(Str(-i), f[i].from, f[i].to, Num(100 * i), Num(i))]

InitResolve ==
  /\ SessionInit
  /\ plan = Plan(StagesGapless, GoalFull)
  /\ \E n \in 0..MaxStages : \E f \in [1..n -> StageOptions] : \E ym \in ProbeMonths :
       probe = [fn |-> "resolve", stages |-> StageList(n, f), ym |-> ym,
                done |-> FALSE, result |-> NoStage]

ResolveCall ==
  /\ probe.fn = "resolve"
  /\ ~probe.done
  /\ probe' = [probe EXCEPT !.done = TRUE,
                            !.result = findStageForYearMonth(probe.stages, probe.ym)]
  /\ UNCHANGED <<clock, plan, store, pc, goalState, stateWarning, displayMode, view,
                 loadReq, inflight, event, ledger,
                 other, firstRecord>>

NextResolve == ResolveCall

SpecResolve == InitResolve /\ [][NextResolve]_vars

-----------------------------------------------------------------------------
(* Plan validation applied on its own *)

\* the stage objects a probed plan is made of
ProbeStages ==
  { Stage(Str(-1), YmStr(2025, 11), Undef, Num(100), Num(10)),
    \* to before from
    Stage(Str(-1), YmStr(2025, 11), YmStr(2025, 10), Num(100), Num(10)),
    \* name of white space only
    Stage(Str(-9), YmStr(2025, 11), YmStr(2025, 12), Num(100), Num(10)),
    \* name "", from with month 13
    Stage(Str(0), YmStr(2025, 13), Undef, Num(100), Num(10)),
    \* to: ""
    Stage(Str(-1), YmStr(2025, 11), Str(0), Num(100), Num(10)),
    \* to with month 00
    Stage(Str(-1), YmStr(2025, 11), YmStr(2025, 0), Num(100), Num(10)),
    \* null, or an object without the three keys
    NoStage,
    \* name a number, from a text that is not a month, to a number
    Stage(Num(5), Str(-1), Num(7), Num(100), Num(10)) }

\* "goal": null
GoalNull == [NoGoal EXCEPT !.t = "null"]
\* "goal": "text"
GoalText == [NoGoal EXCEPT !.t = "string"]
\* target_year and current_buffer missing, current_longterm null
GoalTwoMissing == Goal(Num(9000), Num(500), Null, Undef, Undef)

ProbeGoals == {NoGoal, GoalNull, GoalText, GoalFull, GoalMissingKey, GoalTwoMissing}

\* plans without a usable stages array: the plan itself null, stages
\* missing, stages an object (not an array) holding a broken stage, stages []
ProbeBrokenPlans ==
  { [t |-> "null", stages |-> [t |-> "undefined", items |-> <<>>], goal |-> NoGoal],
    [t |-> "object", stages |-> [t |-> "undefined", items |-> <<>>],
     goal |-> GoalMissingKey],
    [t |-> "object", stages |-> [t |-> "object", items |-> <<NoStage>>],
     goal |-> GoalTwoMissing],
    Plan(<<>>, GoalMissingKey),
    Plan(<<>>, NoGoal) }

InitValidate ==
  /\ SessionInit
  /\ plan = Plan(StagesGapless, GoalFull)
  /\ \E p \in ProbeBrokenPlans
            \cup UNION { { Plan(items, g) : items \in [1..n -> ProbeStages], g \in ProbeGoals }
                         : n \in 1..MaxStages } :
       probe = [fn |-> "validate", plan |-> p, done |-> FALSE, issues |-> <<>>]

ValidateCall ==
  /\ probe.fn = "validate"
  /\ ~probe.done
  /\ probe' = [probe EXCEPT !.done = TRUE, !.issues = validatePlan(probe.plan)]
  /\ UNCHANGED <<clock, plan, store, pc, goalState, stateWarning, displayMode, view,
                 loadReq, inflight, event, ledger,
                 other, firstRecord>>

NextValidate == ValidateCall

SpecValidate == InitValidate /\ [][NextValidate]_vars

-----------------------------------------------------------------------------
(* Two tabs open on the same plan, the same server and the same clock.  One *)
(* tab at a time is in the session variables and takes the steps; the other *)
(* rests in the variable other, with its requests in flight.                *)

\* the session variables of the tab that is taking steps
ThisTab ==
  [pc |-> pc, goalState |-> goalState, stateWarning |-> stateWarning,
   displayMode |-> displayMode, view |-> view, loadReq |-> loadReq,
   inflight |-> inflight, ledger |-> ledger]

\* the handler that runs next belongs to the other tab
SwitchTab ==
  /\ other # NoTab
  /\ other # ThisTab
  /\ pc' = other.pc
  /\ goalState' = other.goalState
  /\ stateWarning' = other.stateWarning
  /\ displayMode' = other.displayMode
  /\ view' = other.view
  /\ loadReq' = other.loadReq
  /\ inflight' = other.inflight
  /\ ledger' = other.ledger
  /\ other' = ThisTab
  /\ event' = Event("switchTab", NoRoll, 0, FALSE, "none")
  /\ UNCHANGED <<clock, plan, store, probe, firstRecord>>

\* the server handles a PUT; the first record it writes is remembered
TabServerPut(i) ==
  /\ ServerPutStep(i)
  /\ firstRecord' = IF store.exists THEN firstRecord ELSE store'

\* both tabs are freshly opened on a valid plan, no record is stored
InitTabs ==
  /\ clock = StartClock
  /\ store = NoFile
  /\ pc = "boot"
  /\ goalState = GoalState0
  /\ stateWarning = ""
  /\ displayMode = "monthly"
  /\ view = ViewOf("loading")
  /\ loadReq = [phase |-> "none", data |-> NoFile]
  /\ inflight = <<>>
  /\ event = Event("start", NoRoll, 0, FALSE, "none")
  /\ ledger = [base |-> GoalState0, applied |-> <<>>]
  /\ plan = Plan(StagesGapless, GoalFull)
  /\ probe = NoProbe
  /\ other = ThisTab
  /\ firstRecord = NoFile

\* loads, rollover passes and saves of the two tabs in any order; every
\* request gets its response
NextTabs ==
  \/ FetchPlanOk
  \/ ServerGet
  \/ LoadStateSettled(TRUE)
  \/ \E i \in 1..Len(inflight) : TabServerPut(i)
  \/ \E i \in 1..Len(inflight) : InitSaveSettled(i, TRUE)
  \/ \E i \in 1..Len(inflight) : RollSaveSettled(i, TRUE)
  \/ Tick60
  \/ \E i \in 1..Len(inflight) : TickSaveSettled(i, TRUE)
  \/ ClockAdvance
  \/ SwitchTab

SpecTabs == InitTabs /\ [][NextTabs]_vars

-----------------------------------------------------------------------------
(* The long-term projection applied on its own, one loop iteration a step *)

ProjStagesSteady ==
  <<Stage(Str(-1), YmStr(2025, 1), Undef, Num(100), Num(10))>>
\* the buffer deposits stop with the year
ProjStagesStep ==
  <<Stage(Str(-1), YmStr(2025, 1), YmStr(2025, 12), Num(100), Num(10)),
    Stage(Str(-2), YmStr(2026, 1), Undef, Num(30), Undef)>>
\* a stage without numeric savings
ProjStagesNone ==
  <<Stage(Str(-1), YmStr(2025, 1), Undef, Undef, Str(-15))>>
\* deposits to the buffer only
ProjStagesBufferOnly ==
  <<Stage(Str(-1), YmStr(2025, 1), Undef, Undef, Num(10))>>

\* 500 a month to the buffer, nothing to the long-term track
ProjStagesExample ==
  <<Stage(Str(-1), YmStr(2025, 1), Undef, Undef, Num(500))>>

ProjStageLists ==
  {ProjStagesSteady, ProjStagesStep, ProjStagesNone, ProjStagesBufferOnly, <<>>}

\* goals by their two targets; the seeds and the year play no part
ProjGoal(tl, tb) == Goal(tl, tb, Num(0), Num(0), Num(2030))

ProjGoals ==
  { ProjGoal(Num(300), Num(50)), ProjGoal(Num(300), Num(0)), ProjGoal(Num(120), Num(35)),
    ProjGoal(Num(0), Num(50)), ProjGoal(Num(300), Num(-1)), ProjGoal(Undef, Num(50)),
    ProjGoal(Num(300), Undef), ProjGoal(Str(-310), Num(50)), NoGoal }

\* the balances the session holds when it renders
ProjSeeds ==
  { [currentLongterm |-> Num(b[1]), currentBuffer |-> Num(b[2]),
     lastRolloverYm |-> YmStr(2025, 11)] :
    b \in {<<0, 0>>, <<100, 40>>, <<250, 20>>, <<300, 50>>, <<300, 0>>, <<0, 50>>} }

\* a buffer target of 3000 approached from 1000
ProjGoalExample == ProjGoal(Num(300), Num(3000))

ProjSeedExample ==
  [currentLongterm |-> Num(0), currentBuffer |-> Num(1000),
   lastRolloverYm |-> YmStr(2025, 11)]

\* the two projections
ProjFns == {"project", "projectBuffer"}

ProjClocks == {JsDate(2025, 10), JsDate(2025, 11)}

InitProject ==
  /\ clock \in ProjClocks
  /\ \/ /\ \E stages \in ProjStageLists, g \in ProjGoals : plan = Plan(stages, g)
        /\ goalState \in ProjSeeds
     \/ /\ plan = Plan(ProjStagesExample, ProjGoalExample)
        /\ goalState = ProjSeedExample
  /\ store = NoFile
  /\ pc = "running"
  /\ stateWarning = ""
  /\ displayMode = "monthly"
  /\ view = ViewOf("loading")
  /\ loadReq = [phase |-> "none", data |-> NoFile]
  /\ inflight = <<>>
  /\ event = Event("start", NoRoll, 0, FALSE, "none")
  /\ ledger = [base |-> goalState, applied |-> <<>>]
  /\ other = NoTab
  /\ firstRecord = NoFile
  /\ \E fn \in ProjFns :
       probe = [fn |-> fn, phase |-> "start", i |-> 0, cursor |-> clock,
                lt |-> 0, buf |-> 0, via |-> "none", result |-> NotReached]

\* projectGoalDate, lines 450-471: the configuration checks, the test of
\* the balances as they are, and the set-up of the loop
ProjectStart ==
  /\ probe.fn = "project"
  /\ probe.phase = "start"
  /\ LET targetLT == safeNumber(plan.goal.target_longterm)
         targetBuf == safeNumber(plan.goal.target_buffer)
         seedLong == safeNumber(goalState.currentLongterm)
         seedBuf == safeNumber(goalState.currentBuffer)
     IN  IF \/ targetLT.t # "number" \/ targetLT.v <= 0
            \/ targetBuf.t # "number" \/ targetBuf.v < 0
            \/ seedLong.t # "number" \/ seedBuf.t # "number"
           THEN probe' = [probe EXCEPT !.phase = "done", !.via = "config",
                                       !.result = ConfigOutcome]
         ELSE IF bothReached(seedLong.v * Scale, seedBuf.v * Scale, targetLT, targetBuf)
           THEN probe' = [probe EXCEPT !.phase = "done", !.via = "now",
                                       !.lt = seedLong.v * Scale,
                                       !.buf = seedBuf.v * Scale,
                                       !.result = Reached(clock)]
         ELSE probe' = [probe EXCEPT !.phase = "loop", !.i = 0,
                                     !.cursor = JsDate(clock.year, clock.month + 1),
                                     !.lt = seedLong.v * Scale,
                                     !.buf = seedBuf.v * Scale]
  /\ UNCHANGED <<clock, plan, store, pc, goalState, stateWarning, displayMode, view,
                 loadReq, inflight, event, ledger,
                 other, firstRecord>>

\* one iteration of the for loop, lines 473-490
ProjectStep ==
  /\ probe.fn = "project"
  /\ probe.phase = "loop"
  /\ withinCeiling(probe.i)
  /\ LET m == projectMonth(StagesOf(plan), probe.cursor, probe.lt, probe.buf)
     IN  IF bothReached(m.lt, m.buf, safeNumber(plan.goal.target_longterm),
                        safeNumber(plan.goal.target_buffer))
           THEN probe' = [probe EXCEPT !.phase = "done", !.via = "month",
                                       !.lt = m.lt, !.buf = m.buf,
                                       !.result = Reached(probe.cursor)]
           ELSE probe' = [probe EXCEPT !.i = @ + 1,
                                       !.cursor = addMonths(probe.cursor, 1),
                                       !.lt = m.lt, !.buf = m.buf]
  /\ UNCHANGED <<clock, plan, store, pc, goalState, stateWarning, displayMode, view,
                 loadReq, inflight, event, ledger,
                 other, firstRecord>>

\* the loop ends at its ceiling, line 492
ProjectEnd ==
  /\ probe.fn = "project"
  /\ probe.phase = "loop"
  /\ ~withinCeiling(probe.i)
  /\ probe' = [probe EXCEPT !.phase = "done", !.via = "ceiling", !.result = NotReached]
  /\ UNCHANGED <<clock, plan, store, pc, goalState, stateWarning, displayMode, view,
                 loadReq, inflight, event, ledger,
                 other, firstRecord>>

\* projectBufferDate, lines 499-511: the configuration checks, the test of
\* the buffer as it is, and the set-up of the loop
BufferStart ==
  /\ probe.fn = "projectBuffer"
  /\ probe.phase = "start"
  /\ LET targetBuf == safeNumber(plan.goal.target_buffer)
         seedBuf == safeNumber(goalState.currentBuffer)
     IN  IF \/ targetBuf.t # "number" \/ targetBuf.v <= 0
            \/ seedBuf.t # "number"
           THEN probe' = [probe EXCEPT !.phase = "done", !.via = "config",
                                       !.result = ConfigOutcome]
         ELSE IF bufferReached(seedBuf.v * Scale, targetBuf)
           THEN probe' = [probe EXCEPT !.phase = "done", !.via = "now",
                                       !.buf = seedBuf.v * Scale,
                                       !.result = Reached(clock)]
         ELSE probe' = [probe EXCEPT !.phase = "loop", !.i = 0,
                                     !.cursor = JsDate(clock.year, clock.month + 1),
                                     !.buf = seedBuf.v * Scale]
  /\ UNCHANGED <<clock, plan, store, pc, goalState, stateWarning, displayMode, view,
                 loadReq, inflight, event, ledger,
                 other, firstRecord>>

\* one iteration of the for loop, lines 513-525
BufferStep ==
  /\ probe.fn = "projectBuffer"
  /\ probe.phase = "loop"
  /\ withinCeiling(probe.i)
  /\ LET buf == bufferMonth(StagesOf(plan), probe.cursor, probe.buf)
     IN  IF bufferReached(buf, safeNumber(plan.goal.target_buffer))
           THEN probe' = [probe EXCEPT !.phase = "done", !.via = "month",
                                       !.buf = buf,
                                       !.result = Reached(probe.cursor)]
           ELSE probe' = [probe EXCEPT !.i = @ + 1,
                                       !.cursor = addMonths(probe.cursor, 1),
                                       !.buf = buf]
  /\ UNCHANGED <<clock, plan, store, pc, goalState, stateWarning, displayMode, view,
                 loadReq, inflight, event, ledger,
                 other, firstRecord>>

\* the loop ends at its ceiling, line 527
BufferEnd ==
  /\ probe.fn = "projectBuffer"
  /\ probe.phase = "loop"
  /\ ~withinCeiling(probe.i)
  /\ probe' = [probe EXCEPT !.phase = "done", !.via = "ceiling", !.result = NotReached]
  /\ UNCHANGED <<clock, plan, store, pc, goalState, stateWarning, displayMode, view,
                 loadReq, inflight, event, ledger,
                 other, firstRecord>>

NextProject ==
  \/ ProjectStart
  \/ ProjectStep
  \/ ProjectEnd
  \/ BufferStart
  \/ BufferStep
  \/ BufferEnd

SpecProject == InitProject /\ [][NextProject]_vars

-----------------------------------------------------------------------------
(* The state storage applied on its own: writes of any body, and reads *)

\* what a client may send for a balance
BodyBalances ==
  { Num(5), Num(0), Infinity, Str(-15), Str(-1), Str(0), Undef, Null, Bool(TRUE) }

\* what a client may send for the watermark
BodyWatermarks ==
  { YmStr(2025, 11), Str(-1), Str(0), Num(202511), Null, Undef }

InitStorage ==
  /\ SessionInit
  /\ plan = Plan(StagesGapless, GoalFull)
  /\ probe = [fn |-> "storage", op |-> "none", body |-> Body(Undef, Undef, Undef),
              response |-> NoFile, written |-> NoFile]

\* PUT /api/state with any body; written keeps the record of the last write
StoragePut ==
  /\ probe.fn = "storage"
  /\ \E lt \in BodyBalances, buf \in BodyBalances, ym \in BodyWatermarks :
       LET body == Body(lt, buf, ym) IN
       /\ store' = PutHandler(body, clock)
       /\ probe' = [probe EXCEPT !.op = "put", !.body = body,
                                  !.response = jsonRecord(PutOut(body, clock)),
                                  !.written = store']
  /\ UNCHANGED <<clock, plan, pc, goalState, stateWarning, displayMode, view,
                 loadReq, inflight, event, ledger,
                 other, firstRecord>>

\* GET /api/state
StorageGet ==
  /\ probe.fn = "storage"
  /\ probe' = [probe EXCEPT !.op = "get", !.response = GetHandler(store)]
  /\ UNCHANGED <<clock, plan, store, pc, goalState, stateWarning, displayMode, view,
                 loadReq, inflight, event, ledger,
                 other, firstRecord>>

NextStorage ==
  \/ StoragePut
  \/ StorageGet
  \/ ClockAdvance

SpecStorage == InitStorage /\ [][NextStorage]_vars

-----------------------------------------------------------------------------
(* computeViewModel applied on its own *)

\* what a stage may carry for a figure: the amount, zero, nothing, null, or
\* the amount as text
FigureOptions(amount) == {Num(amount), Num(0), Undef, Null, Str(-10 - amount)}

InitViewModel ==
  /\ SessionInit
  /\ plan = Plan(StagesGapless, GoalFull)
  /\ \E stage \in {ViewNoStage} \cup
                   { ViewStage(income, net_income, fixed_costs, household, sl, sb) :
                       income \in FigureOptions(50), net_income \in FigureOptions(40),
                       fixed_costs \in FigureOptions(18), household \in FigureOptions(6),
                       sl \in FigureOptions(9), sb \in FigureOptions(2) } :
       probe = [fn |-> "viewModel", stage |-> stage, done |-> FALSE,
                vm |-> computeViewModel(ViewNoStage)]

ViewModelCall ==
  /\ probe.fn = "viewModel"
  /\ ~probe.done
  /\ probe' = [probe EXCEPT !.done = TRUE, !.vm = computeViewModel(probe.stage)]
  /\ UNCHANGED <<clock, plan, store, pc, goalState, stateWarning, displayMode, view,
                 loadReq, inflight, event, ledger,
                 other, firstRecord>>

NextViewModel == ViewModelCall

SpecViewModel == InitViewModel /\ [][NextViewModel]_vars

-----------------------------------------------------------------------------
(* Calendar months, counted *)

MonthIndex(ym) == (ym.v \div 100) * 12 + (ym.v % 100) - 1

YmOfIndex(k) == YmStr(k \div 12, (k % 12) + 1)

\* the months m with last < m <= now, ascending
MonthsAfter(last, now) ==
  [i \in 1..(MonthIndex(now) - MonthIndex(last)) |-> YmOfIndex(MonthIndex(last) + i)]

\* the deposit of month ym on a track: the numeric saving of the stage
\* resolved for ym, nothing when it is not a number
Deposit(stages, ym, track) ==
  LET stage == findStageForYearMonth(stages, ym)
  IN  IF stage[track].t = "number" THEN stage[track].v ELSE 0

RECURSIVE SumDeposits(_, _, _)
SumDeposits(stages, months, track) ==
  IF months = <<>> THEN 0
  ELSE Deposit(stages, Head(months), track) + SumDeposits(stages, Tail(months), track)

\* gs is gs0 with the deposits of the months applied once each and the
\* watermark on the last of them
AppliedOnce(gs0, months, gs) ==
  /\ gs.currentLongterm = Num(gs0.currentLongterm.v
                              + SumDeposits(StagesOf(plan), months, "saving_longterm"))
  /\ gs.currentBuffer = Num(gs0.currentBuffer.v
                            + SumDeposits(StagesOf(plan), months, "saving_buffer"))
  /\ gs.lastRolloverYm = IF months = <<>> THEN gs0.lastRolloverYm ELSE months[Len(months)]

\* the session holds balances (loaded or seeded)
HasBalances == pc \in {"initSaving", "rollSaving", "running"}

-----------------------------------------------------------------------------
(* Claims *)

\* C1: a rollover pass on a valid watermark earlier than the current month
\* steps through exactly the months after the watermark up to and including
\* the current one, in ascending order, adds each month's numeric deposits
\* once and ends with the watermark on the current month; over all the passes
\* of a session the months applied since the balances were adopted are exactly
\* the months between the adopted watermark and the present one, each once.
C1_RolloverExactlyOnce ==
  /\ ( /\ event.roll.ran
       /\ isValidYearMonth(event.roll.before.lastRolloverYm)
       /\ event.roll.before.lastRolloverYm.v < event.roll.now.v )
     => /\ event.roll.trail = MonthsAfter(event.roll.before.lastRolloverYm, event.roll.now)
        /\ AppliedOnce(event.roll.before, event.roll.trail, goalState)
        /\ goalState.lastRolloverYm = event.roll.now
  /\ HasBalances
     => /\ ledger.applied = MonthsAfter(ledger.base.lastRolloverYm, goalState.lastRolloverYm)
        /\ AppliedOnce(ledger.base, ledger.applied, goalState)

\* a later pass of a session caught up two or more months across the year
\* boundary, after an earlier pass had already applied months
C1_Witness ==
  /\ event.roll.ran
  /\ event.roll.changed
  /\ Len(event.roll.trail) >= 2
  /\ event.roll.trail[Len(event.roll.trail)] = YmStr(2026, 1)
  /\ event.roll.trail[Len(event.roll.trail) - 1] = YmStr(2025, 12)
  /\ Len(ledger.applied) > Len(event.roll.trail)

\* C2: a rollover pass run when the current month is not after the watermark
\* changes nothing and reports no change; and a pass repeated in the month of
\* a pass just run changes nothing and reports no change.
C2_RolloverNoOp ==
  event.roll.ran
  => /\ ( /\ Truthy(event.roll.before.lastRolloverYm)
          /\ event.roll.now.v <= event.roll.before.lastRolloverYm.v )
        => /\ goalState = event.roll.before
           /\ ~event.roll.changed
           /\ event.roll.trail = <<>>
           /\ event.saved = 0
     /\ LET again == applyMonthlyRolloverIfNeeded(StagesOf(plan), goalState, clock)
        IN  /\ again.gs = goalState
            /\ ~again.changed

\* a pass ran in the month of the watermark, on balances that earlier passes
\* had raised
C2_Witness ==
  /\ event.roll.ran
  /\ event.roll.now = event.roll.before.lastRolloverYm
  /\ event.kind = "tick"
  /\ Len(ledger.applied) >= 1
  /\ goalState.currentLongterm.v > ledger.base.currentLongterm.v

\* C3: whenever the session holds balances, the watermark is not later than
\* the current month.
C3_WatermarkNotAhead ==
  HasBalances => goalState.lastRolloverYm.v <= getCurrentYearMonth(clock).v

\* C4: at every render of the dashboard (first render, after the save of the
\* 60-second trigger, mode toggle) no elapsed month is still unapplied: the
\* watermark is not behind the current month.
C4_CaughtUpAtRender ==
  event.render => ~(goalState.lastRolloverYm.v < getCurrentYearMonth(clock).v)

\* the step issued one save, and it carries the state the step left
SaveCarriesState ==
  /\ event.saved = 1
  /\ Len(inflight) >= 1
  /\ inflight[Len(inflight)].payload = SavePayload(goalState)
  /\ inflight[Len(inflight)].phase = "sent"

\* C5 as stated: every change of the in-memory state (balances or watermark)
\* made by the load, by the initialization or by a rollover pass comes with a
\* save of the changed state.
C5_EveryChangeSaved ==
  ( \/ (event.kind \in {"load", "init"} /\ goalState # GoalState0)
    \/ (event.roll.ran /\ goalState # event.roll.before) )
  => SaveCarriesState

\* C5 amended: every initialization, and every rollover pass that changes
\* current_longterm or current_buffer, comes with a save of the resulting
\* state, issued in the same turn (before the state can change again).
C5_BalanceChangeSaved ==
  ( \/ event.kind = "init"
    \/ ( /\ event.roll.ran
         /\ \/ goalState.currentLongterm # event.roll.before.currentLongterm
            \/ goalState.currentBuffer # event.roll.before.currentBuffer ) )
  => SaveCarriesState

\* the 60-second trigger caught up a month, raised a balance and saved
C5_Witness ==
  /\ event.kind = "tick"
  /\ event.roll.ran
  /\ goalState.currentLongterm.v > event.roll.before.currentLongterm.v
  /\ SaveCarriesState

\* C6: the goal seeds are adopted only when no record is persisted.
C6_SeedsOnlyWithoutRecord ==
  event.kind = "init" => ~store.exists

\* a seed as initialize takes it: the number, or 0
SeedOrZero(x) == IF x.t = "number" THEN x ELSE Num(0)

\* C7: after the initialization the balances are the goal's seeds (0 for a
\* seed that is absent or not a number) and the watermark is the current
\* month; the first rollover pass, run in that month, leaves the seeded
\* balances as they are, reports no change and saves nothing.
C7_InitSeedsAndWatermark ==
  /\ event.kind = "init"
     => /\ goalState.currentLongterm = SeedOrZero(plan.goal.current_longterm)
        /\ goalState.currentBuffer = SeedOrZero(plan.goal.current_buffer)
        /\ goalState.lastRolloverYm = getCurrentYearMonth(clock)
        /\ LET first == applyMonthlyRolloverIfNeeded(StagesOf(plan), goalState, clock)
           IN  first.gs = goalState /\ ~first.changed
  /\ (event.kind = "initSaved" /\ event.roll.now = event.roll.before.lastRolloverYm)
     => /\ goalState = event.roll.before
        /\ goalState.currentLongterm = SeedOrZero(plan.goal.current_longterm)
        /\ goalState.currentBuffer = SeedOrZero(plan.goal.current_buffer)
        /\ ~event.roll.changed
        /\ event.saved = 0

\* the first pass ran in the month of an initialization whose long-term seed
\* was not a number
C7_Witness ==
  /\ event.kind = "initSaved"
  /\ event.roll.now = event.roll.before.lastRolloverYm
  /\ plan.goal.current_longterm.t = "string"
  /\ goalState.currentLongterm = Num(0)
  /\ goalState.currentBuffer = Num(200)
  /\ pc = "running"

SaveKinds == {"initSaved", "rollSaved", "tickSaved"}

\* C8: a save that fails sets the warning, leaves the goal state as it was
\* and lets its caller go on; a save that succeeds clears the warning; no
\* other step of the session changes the warning.
C8_FailedSaveWarns ==
  [][ /\ (event'.kind \in SaveKinds /\ event'.settled = "fail")
         => /\ stateWarning' = StateNotSaved
            /\ pc' \in {"rollSaving", "running"}
            /\ IF event'.roll.ran THEN event'.roll.before = goalState
               ELSE goalState' = goalState
      /\ (event'.kind \in SaveKinds /\ event'.settled = "ok")
         => stateWarning' = ""
      /\ ( /\ stateWarning # ""
           /\ event'.kind # "reload"
           /\ ~(event'.kind \in SaveKinds /\ event'.settled = "ok") )
         => stateWarning' = stateWarning
    ]_vars

\* the warning of a failed save is still set after a later pass of the
\* 60-second trigger
C8_Witness ==
  /\ stateWarning = StateNotSaved
  /\ view.warning = StateNotSaved
  /\ event.kind = "tick"

\* some month after the watermark, up to the current one, has a numeric deposit
DepositDue ==
  LET months == MonthsAfter(goalState.lastRolloverYm, getCurrentYearMonth(clock))
  IN  \E i \in 1..Len(months) :
        LET stage == findStageForYearMonth(StagesOf(plan), months[i])
        IN  stage.saving_longterm.t = "number" \/ stage.saving_buffer.t = "number"

\* C9: a firing of the 60-second trigger runs the pass on the goal state;
\* without a deposit to add it issues no save, with one it issues exactly one
\* save of the new state; it renders nothing itself.  The render happens when
\* that save settles, whether it succeeded or failed, and shows the warning
\* as the save left it.
C9_TickSavesOnChange ==
  [][ /\ event'.kind = "tick"
         => /\ event'.roll.ran
            /\ event'.roll.before = goalState
            /\ ~event'.render
            /\ view' = view
            /\ IF DepositDue
                 THEN inflight' = Append(inflight, Request(goalState', "tick"))
                 ELSE inflight' = inflight
      /\ event'.kind = "tickSaved"
         => /\ event'.render
            /\ view' = renderCurrentDashboard(stateWarning', clock)
            /\ Len(inflight') = Len(inflight) - 1
            /\ goalState' = goalState
    ]_vars

\* the save of a firing failed and the dashboard was rendered with the warning
C9_Witness ==
  /\ event.kind = "tickSaved"
  /\ event.settled = "fail"
  /\ event.render
  /\ view.warning = StateNotSaved

\* from <= ym and (to absent or ym <= to)
ContainsYm(s, ym) == s.from.v <= ym.v /\ (s.to.t = "undefined" \/ ym.v <= s.to.v)

\* C10: when some stage contains ym, resolve returns a stage of the list that
\* contains ym and whose from is the greatest among the containing stages.
C10_ResolveContaining ==
  ( /\ probe.fn = "resolve"
    /\ probe.done
    /\ \E i \in 1..Len(probe.stages) : ContainsYm(probe.stages[i], probe.ym) )
  => /\ \E i \in 1..Len(probe.stages) : probe.result = probe.stages[i]
     /\ ContainsYm(probe.result, probe.ym)
     /\ \A i \in 1..Len(probe.stages) :
          ContainsYm(probe.stages[i], probe.ym)
          => probe.stages[i].from.v <= probe.result.from.v

\* two overlapping stages contain ym and the later-started one, second in the
\* list, was returned
C10_Witness ==
  /\ probe.fn = "resolve"
  /\ probe.done
  /\ Len(probe.stages) >= 2
  /\ ContainsYm(probe.stages[1], probe.ym)
  /\ ContainsYm(probe.stages[2], probe.ym)
  /\ probe.stages[1].from.v < probe.stages[2].from.v
  /\ probe.result = probe.stages[2]

\* no stage of the probed list contains ym
NoneContains == \A i \in 1..Len(probe.stages) : ~ContainsYm(probe.stages[i], probe.ym)

\* C11: when no stage contains ym but some stage has from <= ym, resolve
\* returns a stage of the list whose from is <= ym and is the greatest among
\* the stages whose from is <= ym.
C11_ResolveGapFallback ==
  ( /\ probe.fn = "resolve"
    /\ probe.done
    /\ NoneContains
    /\ \E i \in 1..Len(probe.stages) : probe.stages[i].from.v <= probe.ym.v )
  => /\ \E i \in 1..Len(probe.stages) : probe.result = probe.stages[i]
     /\ probe.result.from.v <= probe.ym.v
     /\ \A i \in 1..Len(probe.stages) :
          probe.stages[i].from.v <= probe.ym.v
          => probe.stages[i].from.v <= probe.result.from.v

\* ym lies after two stages that have both ended; the later-started of the
\* two, second in the list, was returned
C11_Witness ==
  /\ probe.fn = "resolve"
  /\ probe.done
  /\ NoneContains
  /\ Len(probe.stages) >= 2
  /\ probe.stages[1].from.v < probe.stages[2].from.v
  /\ probe.stages[2].from.v < probe.ym.v
  /\ probe.result = probe.stages[2]

\* C12: when ym is before the from of every stage of a non-empty list,
\* resolve returns a stage of the list with the smallest from; and resolve
\* returns null exactly when the list is empty.
C12_ResolveBeforeAll ==
  ( probe.fn = "resolve" /\ probe.done )
  => /\ ( /\ Len(probe.stages) > 0
          /\ \A i \in 1..Len(probe.stages) : probe.ym.v < probe.stages[i].from.v )
        => /\ \E i \in 1..Len(probe.stages) : probe.result = probe.stages[i]
           /\ \A i \in 1..Len(probe.stages) :
                probe.result.from.v <= probe.stages[i].from.v
     /\ (probe.result = NoStage) <=> (Len(probe.stages) = 0)

\* ym is before both stages and the earlier-started one, second in the list,
\* was returned
C12_Witness ==
  /\ probe.fn = "resolve"
  /\ probe.done
  /\ Len(probe.stages) = 2
  /\ probe.ym.v < probe.stages[2].from.v
  /\ probe.stages[2].from.v < probe.stages[1].from.v
  /\ probe.result = probe.stages[2]

\* the list s with its elements in the order p (a permutation of its indices)
Permuted(s, p) == [i \in 1..Len(s) |-> s[p[i]]]

\* C13: resolve returns the same stage for every order of the same stages.
C13_ResolveOrderIrrelevant ==
  ( probe.fn = "resolve" /\ probe.done )
  => \A p \in Permutations(1..Len(probe.stages)) :
       findStageForYearMonth(Permuted(probe.stages, p), probe.ym) = probe.result

\* validatePlan ran on the probed plan
Validated == probe.fn = "validate" /\ probe.done

\* the plan is missing, or its stages are missing, not an array, or empty
NoStagesArray ==
  \/ probe.plan.t \in {"undefined", "null"}
  \/ probe.plan.stages.t # "array"
  \/ Len(probe.plan.stages.items) = 0

\* how many of the issues are of the kind and about the position
IssueCount(kind, at) ==
  Cardinality({j \in 1..Len(probe.issues) :
                 probe.issues[j].kind = kind /\ probe.issues[j].at = at})

\* 1 if the condition failed, else 0
OneIf(failed) == IF failed THEN 1 ELSE 0

\* C14: for a plan that is missing, or whose stages are missing, not an
\* array or empty, the result is exactly one issue, the one about the stages
\* array: no issue of a stage or of the goal is in it.
C14_ValidateFailsClosed ==
  ( Validated /\ NoStagesArray )
  => /\ Len(probe.issues) = 1
     /\ probe.issues[1].kind = "stages"

\* the stages were an object holding a broken stage, beside a goal with
\* missing keys, and the single issue came back
C14_Witness ==
  /\ Validated
  /\ probe.plan.stages.t = "object"
  /\ Len(probe.plan.stages.items) = 1
  /\ probe.plan.goal.target_year.t = "undefined"
  /\ Len(probe.issues) = 1

\* a value that is given: neither absent nor null
Present(x) == x.t \notin {"undefined", "null"}

\* every issue is about a stage of the plan or about a required goal key
IssuesInRange ==
  \A j \in 1..Len(probe.issues) :
    \/ /\ probe.issues[j].kind \in {"name", "from", "to"}
       /\ probe.issues[j].at \in 1..Len(probe.plan.stages.items)
    \/ /\ probe.issues[j].kind = "goal"
       /\ probe.issues[j].at \in 1..Len(GoalKeys)

\* the name is missing, not a string, or the empty string
NameMissingOrEmpty(stage) == stage.name.t # "string" \/ stage.name = Str(0)

\* a to is given and is not a month
ToPresentInvalid(stage) == Present(stage.to) /\ ~isValidYearMonth(stage.to)

\* the name is missing, not a string, or empty once trimmed
NameBlank(stage) == stage.name.t # "string" \/ trim(stage.name) = Str(0)

\* a to that is truthy and is not a month
ToTruthyInvalid(stage) == Truthy(stage.to) /\ ~isValidYearMonth(stage.to)

\* the issues are exactly: per stage, one for a failing name, one for an
\* invalid from, one for a failing to; per required key, one if the goal is
\* present and lacks it.  The name and the to fail as the words say
\* (literal) or as trimmed and truthy values do
IssuesAre(literal) ==
  /\ IssuesInRange
  /\ \A i \in 1..Len(probe.plan.stages.items) :
       LET stage == probe.plan.stages.items[i] IN
       /\ IssueCount("name", i) =
            OneIf(IF literal THEN NameMissingOrEmpty(stage) ELSE NameBlank(stage))
       /\ IssueCount("from", i) = OneIf(~isValidYearMonth(stage.from))
       /\ IssueCount("to", i) =
            OneIf(IF literal THEN ToPresentInvalid(stage) ELSE ToTruthyInvalid(stage))
  /\ \A k \in 1..Len(GoalKeys) :
       IssueCount("goal", k) =
         OneIf(Present(probe.plan.goal) /\ probe.plan.goal[GoalKeys[k]].t = "undefined")

BalanceSteps ==
  {"serverGet", "load", "init", "serverPut", "initSaved", "rollSaved", "tick",
   "tickSaved", "toggle"}

\* C16: with a plan that has issues the session never gets past the
\* validation: once the plan has been read the page shows the error view
\* with every issue, and no dashboard is rendered, no state is loaded, seeded
\* or saved, no rollover pass runs and no trigger fires; a dashboard is on
\* the page only for a plan without issues.
C16_InvalidPlanBlocks ==
  /\ Len(validatePlan(plan)) > 0
     => /\ pc \in {"boot", "fatal", "invalid"}
        /\ pc = "invalid" => view = renderValidationErrors(validatePlan(plan))
        /\ view.kind # "dashboard"
        /\ goalState = GoalState0
        /\ loadReq.phase = "none"
        /\ inflight = <<>>
        /\ ~event.roll.ran
        /\ ~event.render
        /\ event.saved = 0
        /\ event.kind \notin BalanceSteps
  /\ view.kind = "dashboard" => Len(validatePlan(plan)) = 0

\* the error view of a plan with an issue is still on the page a month
\* later, with a record in the store that the session never read
C16_Witness ==
  /\ pc = "invalid"
  /\ view.kind = "errors"
  /\ Len(view.issues) >= 1
  /\ MonthsElapsed >= 1
  /\ store.exists

\* C17: in a plan that passed validation and is in use by the session, the
\* to of every stage is absent or not before the stage's from.
C17_StageEndsNotBeforeStart ==
  pc \in {"loadingState", "initSaving", "rollSaving", "running"}
  => \A i \in 1..Len(StagesOf(plan)) :
       \/ ~Truthy(StagesOf(plan)[i].to)
       \/ StagesOf(plan)[i].from.v <= StagesOf(plan)[i].to.v

\* C18: no step of a session lowers a balance it holds in memory, and no
\* save of a session, of this page load or of an earlier one, lowers a
\* balance of the stored record.
C18_BalancesNeverDecrease ==
  [][ /\ (HasBalances /\ HasBalances')
         => /\ goalState'.currentLongterm.v >= goalState.currentLongterm.v
            /\ goalState'.currentBuffer.v >= goalState.currentBuffer.v
      /\ (store.exists /\ event'.kind = "serverPut")
         => /\ store'.current_longterm.v >= store.current_longterm.v
            /\ store'.current_buffer.v >= store.current_buffer.v
    ]_vars

\* the k-th month after the month of the clock
MonthAhead(k) == YmOfIndex(MonthIndex(getCurrentYearMonth(clock)) + k)

\* the balances (in hundredths) after k simulated months: the seeds, and for
\* each month the deposit of its stage added and then the growth applied to
\* the long-term balance
RECURSIVE SimulatedAfter(_)
SimulatedAfter(k) ==
  IF k = 0
    THEN [lt |-> goalState.currentLongterm.v * Scale,
          buf |-> goalState.currentBuffer.v * Scale]
    ELSE LET prev == SimulatedAfter(k - 1) IN
         [lt |-> Grow(prev.lt + Deposit(StagesOf(plan), MonthAhead(k), "saving_longterm") * Scale),
          buf |-> prev.buf + Deposit(StagesOf(plan), MonthAhead(k), "saving_buffer") * Scale]

LongtermMet(k) == SimulatedAfter(k).lt >= plan.goal.target_longterm.v * Scale

BufferMet(k) == SimulatedAfter(k).buf >= plan.goal.target_buffer.v * Scale

\* how many months after the month of the clock the date lies
MonthsAhead(date) == (date.year * 12 + date.month) - (clock.year * 12 + clock.month)

\* C19: when the long-term projection reports reached, both thresholds hold
\* at the reported point and at no simulated point before it; the point is
\* the current moment exactly when both hold for the balances as they are,
\* and otherwise the first day of the k-th month after the current one,
\* k >= 1, for the first k after whose deposit and growth both hold.
C19_ReachedWhenBothHold ==
  ( probe.fn = "project" /\ probe.phase = "done" /\ probe.result.reached )
  => LET k == MonthsAhead(probe.result.date) IN
     /\ k >= 0
     /\ LongtermMet(k) /\ BufferMet(k)
     /\ \A j \in 0..(k - 1) : ~(LongtermMet(j) /\ BufferMet(j))
     /\ (k = 0) <=> (probe.via = "now")

\* reached was reported for a month of the next year, after months in which
\* the buffer threshold held and the long-term one did not
C19_Witness ==
  /\ probe.fn = "project"
  /\ probe.phase = "done"
  /\ probe.result.reached
  /\ probe.via = "month"
  /\ MonthsAhead(probe.result.date) >= 2
  /\ probe.result.date.year = 2026
  /\ BufferMet(0) /\ ~LongtermMet(0)
  /\ BufferMet(1) /\ ~LongtermMet(1)

\* C20: every iteration of the long-term projection adds the month's numeric
\* long-term deposit and then applies the growth once to the balance with
\* the deposit in it; the buffer balance receives its deposit and no growth.
C20_DepositThenGrowth ==
  [][ ( /\ probe.fn = "project"
        /\ probe.phase = "loop"
        /\ probe' # probe
        /\ probe'.via # "ceiling" )
      => LET ym == getCurrentYearMonth(probe.cursor) IN
         /\ ym = MonthAhead(probe.i + 1)
         /\ probe'.lt = Grow(probe.lt + Deposit(StagesOf(plan), ym, "saving_longterm") * Scale)
         /\ probe'.buf = probe.buf + Deposit(StagesOf(plan), ym, "saving_buffer") * Scale
    ]_vars

\* the second iteration ended the projection: the long-term balance is the
\* seed with deposit and growth applied twice in that order, which differs
\* from growth before deposit and from no growth; the buffer holds its seed
\* and the two deposits only
C20_Witness ==
  /\ probe.fn = "project"
  /\ probe.phase = "done"
  /\ probe.via = "month"
  /\ probe.i = 1
  /\ goalState.currentLongterm = Num(100)
  /\ probe.lt = Grow(Grow(10000 + 10000) + 10000)
  /\ probe.lt # Grow(Grow(10000) + 10000) + 10000
  /\ probe.lt > 30000
  /\ probe.buf = 4000 + 1000 + 1000

\* the buffer balance (in hundredths) after k simulated months of the buffer
\* projection: the seed plus the numeric buffer deposits of the k months
\* after the current one, no growth
RECURSIVE BufferAfter(_)
BufferAfter(k) ==
  IF k = 0 THEN goalState.currentBuffer.v * Scale
  ELSE BufferAfter(k - 1) + Deposit(StagesOf(plan), MonthAhead(k), "saving_buffer") * Scale

\* the goal carries a buffer target the specification accepts, a number not
\* below zero, and the session holds a numeric buffer balance
BufferConfigured ==
  /\ plan.goal.t = "object"
  /\ plan.goal.target_buffer.t = "number"
  /\ plan.goal.target_buffer.v >= 0
  /\ goalState.currentBuffer.t = "number"

\* a step of the buffer projection, from the balance after probe.i months:
\* the balance it starts from is the seed, every month adds the numeric
\* buffer deposit of the stage resolved for it and nothing else, reached is
\* reported for the current moment or for the first month whose sum is at
\* least the target, and the loop goes on only below the target
BufferStepsWithoutGrowth ==
  LET target == plan.goal.target_buffer.v * Scale
      seed == goalState.currentBuffer.v * Scale
      sum == probe.buf + Deposit(StagesOf(plan), MonthAhead(probe.i + 1), "saving_buffer") * Scale
  IN  /\ probe.phase = "start"
         => IF seed >= target
              THEN probe'.result = Reached(clock)
              ELSE probe'.phase = "loop" /\ probe'.i = 0 /\ probe'.buf = seed
      /\ (probe.phase = "loop" /\ probe.i < MaxIterations)
         => /\ probe.buf < target
            /\ probe'.buf = sum
            /\ IF sum >= target
                 THEN /\ probe'.result.reached
                      /\ MonthsAhead(probe'.result.date) = probe.i + 1
                 ELSE probe'.phase = "loop" /\ probe'.i = probe.i + 1
      /\ (probe.phase = "loop" /\ probe.i >= MaxIterations)
         => probe'.result = NotReached

\* C21: the buffer projection applies no growth: its balance after k months
\* is the seed plus the k resolved numeric buffer deposits, and for a buffer
\* target that is a number not below zero it reports reached at the first k
\* (0 the current moment) at which that sum is at least the target, whatever
\* the long-term target is.
C21_BufferWithoutGrowth ==
  [][ ( probe.fn = "projectBuffer" /\ BufferConfigured /\ probe' # probe )
      => BufferStepsWithoutGrowth ]_vars

\* the same for the buffer targets above zero
C21_BufferWithoutGrowthPositive ==
  [][ ( /\ probe.fn = "projectBuffer"
        /\ BufferConfigured
        /\ plan.goal.target_buffer.v > 0
        /\ probe' # probe )
      => BufferStepsWithoutGrowth ]_vars

\* seed 1000, 500 a month, target 3000: reached in the fourth month
C21_Example ==
  /\ probe.fn = "projectBuffer"
  /\ probe.phase = "done"
  /\ plan = Plan(ProjStagesExample, ProjGoalExample)
  /\ goalState = ProjSeedExample
  /\ probe.result.reached
  /\ MonthsAhead(probe.result.date) = 4
  /\ BufferAfter(4) = 3000 * Scale
  /\ BufferAfter(3) < 3000 * Scale
  /\ probe.buf = BufferAfter(4)

\* C22: both projections terminate for every input: a call that has not come
\* to its result always has a next step, every step either ends the call or
\* moves it to the next of at most 600 iterations, and a call that ran all
\* 600 without meeting its thresholds returns not-reached.
C22_ProjectionsTerminate ==
  /\ [](probe.phase # "done" => ENABLED NextProject)
  /\ [][ probe' # probe
         => \/ probe'.phase = "done"
            \/ probe.phase = "start" /\ probe'.phase = "loop" /\ probe'.i = 0
            \/ probe.phase = "loop" /\ probe'.phase = "loop" /\ probe'.i = probe.i + 1
       ]_vars
  /\ [](probe.i <= MaxIterations)
  /\ []((probe.phase = "done" /\ probe.via = "month") => probe.i + 1 <= MaxIterations)
  /\ []((probe.phase = "done" /\ probe.via = "ceiling")
          => (probe.i = MaxIterations /\ probe.result = NotReached))

\* the long-term projection ran 600 months on a complete configuration: the
\* long-term balance grew past its target and the buffer never met its own
C22_Witness ==
  /\ probe.fn = "project"
  /\ probe.phase = "done"
  /\ probe.via = "ceiling"
  /\ probe.i = MaxIterations
  /\ probe.cursor.year = 2075
  /\ plan.goal.target_longterm = Num(300)
  /\ plan.goal.target_buffer = Num(50)
  /\ probe.lt >= 300 * Scale
  /\ probe.buf < 50 * Scale
  /\ ~probe.result.reached

\* C23: the result of a projection that ran to the 600-month ceiling without
\* meeting its thresholds differs from the result returned for an
\* insufficient configuration, so that a caller can tell the two apart.
C23_CeilingDistinctFromConfig ==
  ( probe.fn \in ProjFns /\ probe.phase = "done" /\ probe.via = "ceiling" )
  => probe.result # ConfigOutcome

\* a body value that Number() turns into a number other than NaN: a number,
\* a boolean, null, and a string that is a decimal text or holds no text
NumericInput(x) ==
  \/ x.t \in {"number", "boolean", "null"}
  \/ x.t = "string" /\ (x.v <= -9 \/ x.v = 0)

\* the stored balance for a body value: a number, 0 for a non-numeric input
StoredBalanceOf(stored, x) ==
  /\ stored.t = "number"
  /\ ~NumericInput(x) => stored = Num(0)

\* C24: for every write body the stored record has numbers for both
\* balances (0 where the input is not numeric) and the input string, or
\* null when the input is not a string, as last_rollover_ym; the response
\* of the write is the stored record; a read with no write in between
\* returns that record, and a read before any write returns the empty
\* result.
C24_WriteStoresCoercedRecord ==
  probe.fn = "storage"
  => /\ probe.op = "put"
        => /\ store.exists
           /\ StoredBalanceOf(store.current_longterm, probe.body.current_longterm)
           /\ StoredBalanceOf(store.current_buffer, probe.body.current_buffer)
           /\ store.last_rollover_ym =
                IF probe.body.last_rollover_ym.t = "string"
                  THEN probe.body.last_rollover_ym ELSE Null
           /\ probe.response = store
     /\ (probe.op = "get" /\ probe.written.exists)
        => (probe.response = probe.written /\ probe.response = store)
     /\ (probe.op = "get" /\ ~probe.written.exists)
        => probe.response = NoFile

\* the same with a balance required to be a number or null
C24_StoredNumberOrNull ==
  probe.fn = "storage"
  => /\ probe.op = "put"
        => /\ store.exists
           /\ store.current_longterm.t \in {"number", "null"}
           /\ store.current_buffer.t \in {"number", "null"}
           /\ store.last_rollover_ym =
                IF probe.body.last_rollover_ym.t = "string"
                  THEN probe.body.last_rollover_ym ELSE Null
           /\ probe.response = store
     /\ (probe.op = "get" /\ probe.written.exists)
        => (probe.response = probe.written /\ probe.response = store)
     /\ (probe.op = "get" /\ ~probe.written.exists)
        => probe.response = NoFile

\* a record written in one month is read back unchanged in a later month
C24_Witness ==
  /\ probe.fn = "storage"
  /\ probe.op = "get"
  /\ probe.written.exists
  /\ probe.response = probe.written
  /\ probe.response.current_longterm = Num(5)
  /\ probe.response.current_buffer = Num(0)
  /\ probe.body.current_buffer = Str(-1)
  /\ probe.response.last_rollover_ym = YmStr(2025, 11)
  /\ probe.response.updated_at # toISOString(clock)

\* the stage field is there and a number
Numeric(field) == probe.stage[field].t = "number"

\* the amount of a stage field
Amount(field) == probe.stage[field].v

\* a derived field: the amount when every field it depends on is a number,
\* unavailable (null) otherwise
DerivedFrom(value, fields, amount) ==
  /\ (value = Null) <=> (\E f \in fields : ~Numeric(f))
  /\ (\A f \in fields : Numeric(f)) => value = Num(amount)

\* C25: each derived field of the view model is unavailable exactly when at
\* least one stage field it depends on, directly or through another derived
\* field, is missing or not a number, and equals its formula otherwise; a
\* missing input is never read as zero.
C25_MissingPropagates ==
  ( probe.fn = "viewModel" /\ probe.done )
  => /\ DerivedFrom(probe.vm.totalOut, {"fixed_costs", "household"},
                    Amount("fixed_costs") + Amount("household"))
     /\ DerivedFrom(probe.vm.savingsTotal, {"saving_longterm", "saving_buffer"},
                    Amount("saving_longterm") + Amount("saving_buffer"))
     /\ DerivedFrom(probe.vm.leftover,
                    {"net_income", "fixed_costs", "household",
                     "saving_longterm", "saving_buffer"},
                    Amount("net_income")
                      - (Amount("fixed_costs") + Amount("household"))
                      - (Amount("saving_longterm") + Amount("saving_buffer")))
     /\ DerivedFrom(probe.vm.tax, {"income", "net_income"},
                    Amount("income") - Amount("net_income"))

\* the buffer saving alone is missing: the savings total and the leftover are
\* unavailable, the total out and the tax are their formulas
C25_Witness ==
  /\ probe.fn = "viewModel"
  /\ probe.done
  /\ probe.stage = ViewStage(Num(50), Num(40), Num(18), Num(6), Num(9), Undef)
  /\ probe.vm.savingsTotal = Null
  /\ probe.vm.leftover = Null
  /\ probe.vm.totalOut = Num(24)
  /\ probe.vm.tax = Num(10)

\* rec holds the balances of the first stored record plus, once each, the
\* deposits of the months after that record's watermark up to and including
\* the watermark of rec
ConsistentSnapshot(rec) ==
  LET months == MonthsAfter(firstRecord.last_rollover_ym, rec.last_rollover_ym) IN
  /\ rec.current_longterm.v = firstRecord.current_longterm.v
                               + SumDeposits(StagesOf(plan), months, "saving_longterm")
  /\ rec.current_buffer.v = firstRecord.current_buffer.v
                             + SumDeposits(StagesOf(plan), months, "saving_buffer")

\* C26: with two tabs on the same plan and clock, in every order of their
\* loads, rollover passes and saves, every record the store holds is a
\* consistent snapshot: the first stored balances plus, once each, the
\* deposits of the months after the first stored watermark up to and
\* including the record's own watermark.
C26_StoreHoldsConsistentSnapshots ==
  ( other # NoTab /\ store.exists ) => ConsistentSnapshot(store)

====
